---- MODULE Spec2Model ----
\* State-machine model of seleniumtabs: the tab registry (tabs.py, browser.py),
\* the driver's window state behind Session (session.py) and the task scheduler
\* (schedule_tasks.py) together with the job list of the `schedule` library it
\* drives.  Time is counted in quarter seconds, the length of the settle delay.
EXTENDS Integers, Sequences, FiniteSets, TLC

\* ---------------------------------------------------------------- bounds
\* Windows Browser.open may create (handles 1..MaxTabs; 0 is the driver's own
\* first window, which no Tab of the registry wraps).
MaxTabs == 3
\* schedule_task registrations (job ids 1..MaxJobs).
MaxJobs == 2
\* Latest clock value at which the caller still starts an operation, in the
\* specification of the whole program, in that of the registry alone, in that
\* of the registry used directly, in that of close_tab step by step and in
\* that of every operation together.
MaxNow == 12
TabsMaxNow == 30
ManagerMaxNow == 5
CloseMaxNow == 30
FocusMaxNow == 5
\* Longest run window of the cadence specification, in seconds.
CadenceMaxSeconds == 8
\* How long, in clock units, an execute_tasks that no time limit ends is
\* followed.
LoopMaxSpan == 12

\* ------------------------------------------------------------- constants
\* time.sleep(0.25) after the switch: one clock unit.
SettleDelay == 1
\* Clock units per second (period and max_time are given in seconds).
Second == 4
\* The value the driver reports when its current window has been closed
\* (current_window_handle raises, Tab.is_active answers False).
NoWindow == -1
\* Python's None, for first_tab/last_tab/current_tab of an empty registry and
\* for max_time=None.
None == -2

\* Callback names (task_func.__name__).  failing_task raises on every call,
\* check_time and check_title return normally.
Names == {"failing_task", "check_time"}
Raises(name) == name = "failing_task"
\* period arguments of schedule_task, in seconds (0 and -1 are rejected).
Periods == {-1, 0, 1, 2}
\* max_time / sleep_time arguments of execute_tasks, in clock units.
MaxTimes == {1 * Second}
SleepTimes == {2}
\* Duration of humanized_wait(1) in clock units: 1.25 s at least.
HumanizedWaits == {5}
\* What the driver does with window.open and the page load of Browser.open.
OpenOutcomes == {"ok", "blocked", "load_failed"}

VARIABLES
    handles,      \* driver.window_handles: the live windows
    cur,          \* driver.current_window_handle, NoWindow once that window is closed
    nextHandle,   \* the handle the driver gives the next window
    all_tabs,     \* TabManager._all_tabs: the handles in insertion order
    closing,      \* the tab of a close_tab that is followed step by step, else None
    jobs,         \* schedule's job list (the default scheduler's jobs)
    nextJob,      \* identity of the next Job object
    tasks,        \* BrowserTaskScheduler._tasks: name -> job
    task_status,  \* BrowserTaskScheduler._task_status: name -> bool
    tab_tasks,    \* BrowserTaskScheduler._tab_tasks: tab -> list of names
    running,      \* BrowserTaskScheduler._running
    pc,           \* position of execute_tasks ("idle", "top", "pending", and
                  \* "settle" inside a wrapper followed step by step) or of a
                  \* close_tab followed step by step ("focused", "removed", "closed")
    pending,      \* the sorted runnable jobs run_pending still has to run
    start_time,   \* execute_tasks: start_time
    max_time,     \* execute_tasks: max_time
    sleep_time,   \* execute_tasks: sleep_time
    tickAt,       \* clock value at which the current run_pending began
    tickLog,      \* the dispatches of the current run_pending, in order, each
                  \* with the job's last_run before it
    runCalls,     \* callback invocations since the current execute_tasks began
    now,          \* the clock (time.time / datetime.now)
    horizon,      \* the clock value after which the caller starts nothing more
    last          \* the operation that made the last step, and how it ended

vars == <<handles, cur, nextHandle, all_tabs, closing, jobs, nextJob, tasks, task_status,
          tab_tasks, running, pc, pending, start_time, max_time, sleep_time,
          tickAt, tickLog, runCalls, now, horizon, last>>

driverVars == <<handles, cur, nextHandle>>
schedVars == <<jobs, nextJob, tasks, task_status, tab_tasks>>
loopVars == <<running, pc, pending, start_time, max_time, sleep_time, tickAt,
              tickLog, runCalls>>

EmptyMap == [x \in {} |-> 0]

Op(op, tab, name, job, res) ==
    [op |-> op, tab |-> tab, name |-> name, job |-> job, res |-> res]

\* ------------------------------------------------------------------ Tab
\* A tab that takes its window for open whatever the driver lists.
is_alive_always(h, hs) == TRUE

\* Tab.is_alive: the handle is one of driver.window_handles.
is_alive(h, hs) == h \in hs

\* A tab that never finds itself the current window.
is_active_never(h, c) == FALSE

is_active(h, c) == c # NoWindow /\ c = h

\* A switch that does not look whether the window is still open.
SwitchResult_unchecked(h, hs, c) == IF is_active(h, c) THEN "false" ELSE "true"

\* Tab.switch: what it returns ("false", "true") or that it raises.
SwitchResult(h, hs, c) ==
    IF is_active(h, c) THEN "false"
    ELSE IF ~is_alive(h, hs) THEN "raise"
    ELSE "true"

\* A switch that focuses the window without looking whether it is open.
SwitchFocus_unchecked(h, hs, c) == IF is_active(h, c) THEN c ELSE h

\* A switch that answers as Tab.switch does but never calls the driver.
SwitchFocus_nofocus(h, hs, c) == c

\* Tab.switch: the driver's current window afterwards.
SwitchFocus(h, hs, c) ==
    IF is_active(h, c) THEN c
    ELSE IF ~is_alive(h, hs) THEN c
    ELSE h

\* ----------------------------------------------------------- TabManager
\* A registry that takes every tab for one of its own.
exist_always(h, tabs) == TRUE

exist(h, tabs) == \E i \in 1..Len(tabs) : tabs[i] = h

first_tab(tabs) == IF tabs # <<>> THEN tabs[1] ELSE None

last_tab(tabs) == IF tabs # <<>> THEN tabs[Len(tabs)] ELSE None

\* TabManager.current_tab: the registry's Tab for the driver's current handle.
current_tab(tabs, c) == IF exist(c, tabs) THEN c ELSE None

\* An add that puts the new tab first.
add_first(tabs, h) == IF exist(h, tabs) THEN tabs ELSE <<h>> \o tabs

\* TabManager.add: OrderedDict.update keeps the place of a key it already has.
add(tabs, h) == IF exist(h, tabs) THEN tabs ELSE Append(tabs, h)

\* A remove that pops the newest entry (popitem) whatever tab it is given.
remove_newest(tabs, h) == SubSeq(tabs, 1, Len(tabs) - 1)

\* TabManager.remove: OrderedDict.pop(handle, None).
remove(tabs, h) == SelectSeq(tabs, LAMBDA x : x # h)

\* A switch_to_last_tab that takes the first tab for the last.
switch_to_last_tab_first(tabs, hs, c) ==
    IF tabs # <<>> /\ is_alive(tabs[1], hs) THEN SwitchFocus(tabs[1], hs, c) ELSE c

\* TabManager.switch_to_last_tab: the current window afterwards.
switch_to_last_tab(tabs, hs, c) ==
    LET t == last_tab(tabs)
    IN  IF t # None /\ is_alive(t, hs) /\ exist(t, tabs)
        THEN SwitchFocus(t, hs, c)
        ELSE c

\* TabManager.switch_to_first_tab: the current window afterwards.
switch_to_first_tab(tabs, hs, c) ==
    LET t == first_tab(tabs)
    IN  IF t # None /\ is_alive(t, hs) /\ exist(t, tabs)
        THEN SwitchFocus(t, hs, c)
        ELSE c

\* A switch_to_tab that answers True whatever it finds.
switch_to_tab_answer_true(t, tabs, hs) == "true"

\* What switch_to_tab, switch_to_first_tab and switch_to_last_tab return for
\* the target t (None when the registry is empty).
switch_to_tab_answer(t, tabs, hs) ==
    IF t # None /\ is_alive(t, hs) /\ exist(t, tabs) THEN "true" ELSE "false"

\* A close_driver that leaves every window open.
close_driver_none(hs, c) == hs

\* Session.close_driver: driver.close() closes the current window.
close_driver(hs, c) == hs \ {c}

\* The state after Browser(...): the driver's first window, an empty registry,
\* the module-level scheduler without jobs.
Start ==
    /\ handles = {0}
    /\ cur = 0
    /\ nextHandle = 1
    /\ all_tabs = <<>>
    /\ closing = None
    /\ jobs = <<>>
    /\ nextJob = 1
    /\ tasks = EmptyMap
    /\ task_status = EmptyMap
    /\ tab_tasks = EmptyMap
    /\ running = FALSE
    /\ pc = "idle"
    /\ pending = <<>>
    /\ start_time = 0
    /\ max_time = None
    /\ sleep_time = 0
    /\ tickAt = 0
    /\ tickLog = <<>>
    /\ runCalls = 0
    /\ now = 0
    /\ last = Op("init", None, "", 0, "")

Init == Start /\ horizon = MaxNow

\* ------------------------------------------------------------- Browser
\* Browser.open: switch_to_last_tab, TabManager.open_new_tab (get_blank_tab,
\* Tab.open), curr_tab.switch.  window.open runs in the current window, so a
\* closed current window makes the driver raise.
open(outcome, w) ==
    LET c1 == switch_to_last_tab(all_tabs, handles, cur)
        h == nextHandle
    IN  /\ pc = "idle"
        /\ nextHandle <= MaxTabs
        /\ now + w <= horizon
        /\ IF c1 = NoWindow
           THEN /\ cur' = c1
                /\ UNCHANGED <<handles, nextHandle, all_tabs, now>>
                /\ last' = Op("open", None, "", 0, "raise_no_window")
           ELSE IF outcome = "blocked"
           THEN /\ cur' = c1
                /\ UNCHANGED <<handles, nextHandle, all_tabs, now>>
                /\ last' = Op("open", None, "", 0, "raise_open")
           ELSE /\ handles' = handles \cup {h}
                /\ nextHandle' = h + 1
                /\ all_tabs' = add(all_tabs, h)
                /\ cur' = SwitchFocus(h, handles \cup {h}, h)
                /\ now' = now + w
                /\ last' = Op("open", h, "", 0,
                              IF outcome = "load_failed" THEN "raise_load" ELSE "ok")
        /\ UNCHANGED <<schedVars, loopVars, closing, horizon>>

\* Browser._remove_tab: the asserts, tab.switch, TabManager.remove,
\* Session.close_driver, the asserts again, last_tab.switch.  The result is the
\* registry, the live windows and the current window it leaves, and how it ended.
remove_tab(t, tabs, hs, c) ==
    LET c1 == SwitchFocus(t, hs, c)
        tabs1 == remove(tabs, t)
        hs1 == close_driver(hs, c1)
        lt == last_tab(tabs1)
        left == [tabs |-> tabs1, handles |-> hs1, cur |-> NoWindow, res |-> "ok"]
    IN  IF ~is_alive(t, hs) \/ ~exist(t, tabs)
        THEN [tabs |-> tabs, handles |-> hs, cur |-> c, res |-> "raise_assert"]
        ELSE IF is_alive(t, hs1) \/ exist(t, tabs1)
        THEN [left EXCEPT !.res = "raise_assert"]
        ELSE IF lt = None
        THEN left
        ELSE IF SwitchResult(lt, hs1, NoWindow) = "raise"
        THEN [left EXCEPT !.res = "raise_dead"]
        ELSE [left EXCEPT !.cur = SwitchFocus(lt, hs1, NoWindow)]

\* Browser.close_tab: exist, tab.switch, _remove_tab, humanized_wait(1),
\* switch_to_last_tab, return True; SeleniumRequestException otherwise.  The
\* caller may pass any Tab object it holds: one of the registry, one it closed
\* before, or the Tab of window 0, which unmanaged_tabs hands out.
close_tab(t, w) ==
    /\ pc = "idle"
    /\ t \in 0..(nextHandle - 1)
    /\ now + w <= horizon
    /\ IF ~exist(t, all_tabs)
       THEN /\ UNCHANGED <<handles, cur, all_tabs, now>>
            /\ last' = Op("close_tab", t, "", 0, "raise_not_exist")
       ELSE IF SwitchResult(t, handles, cur) = "raise"
       THEN /\ UNCHANGED <<handles, cur, all_tabs, now>>
            /\ last' = Op("close_tab", t, "", 0, "raise_dead")
       ELSE LET r == remove_tab(t, all_tabs, handles, SwitchFocus(t, handles, cur))
            IN  /\ handles' = r.handles
                /\ all_tabs' = r.tabs
                /\ IF r.res = "ok"
                   THEN /\ cur' = switch_to_last_tab(r.tabs, r.handles, r.cur)
                        /\ now' = now + w
                        /\ last' = Op("close_tab", t, "", 0, "true")
                   ELSE /\ cur' = r.cur
                        /\ now' = now
                        /\ last' = Op("close_tab", t, "", 0, r.res)
    /\ UNCHANGED <<nextHandle, schedVars, loopVars, closing, horizon>>

\* Browser.close_tab followed statement by statement, so that what the driver
\* and the registry hold between two statements is a state of its own and a
\* window closed from outside can fall between them.
\* close_begin: the exist test and tab.switch of close_tab.
close_begin(t) ==
    /\ pc = "idle"
    /\ t \in 0..(nextHandle - 1)
    /\ now <= horizon
    /\ IF ~exist(t, all_tabs)
       THEN /\ UNCHANGED <<cur, pc, closing>>
            /\ last' = Op("close_begin", t, "", 0, "raise_not_exist")
       ELSE IF SwitchResult(t, handles, cur) = "raise"
       THEN /\ UNCHANGED <<cur, pc, closing>>
            /\ last' = Op("close_begin", t, "", 0, "raise_dead")
       ELSE /\ cur' = SwitchFocus(t, handles, cur)
            /\ pc' = "focused"
            /\ closing' = t
            /\ last' = Op("close_begin", t, "", 0, "ok")
    /\ UNCHANGED <<handles, nextHandle, all_tabs, schedVars, running, pending,
                   start_time, max_time, sleep_time, tickAt, tickLog, runCalls,
                   now, horizon>>

\* _remove_tab up to TabManager.remove: the two asserts, tab.switch, remove.
close_remove ==
    /\ pc = "focused"
    /\ IF ~is_alive(closing, handles) \/ ~exist(closing, all_tabs)
       THEN /\ UNCHANGED <<cur, all_tabs>>
            /\ pc' = "idle"
            /\ closing' = None
            /\ last' = Op("close_remove", closing, "", 0, "raise_assert")
       ELSE /\ cur' = SwitchFocus(closing, handles, cur)
            /\ all_tabs' = remove(all_tabs, closing)
            /\ pc' = "removed"
            /\ UNCHANGED closing
            /\ last' = Op("close_remove", closing, "", 0, "ok")
    /\ UNCHANGED <<handles, nextHandle, schedVars, running, pending, start_time,
                   max_time, sleep_time, tickAt, tickLog, runCalls, now, horizon>>

\* _remove_tab: Session.close_driver.  driver.close() raises when the current
\* window is gone already.
close_window ==
    /\ pc = "removed"
    /\ IF cur = NoWindow
       THEN /\ UNCHANGED handles
            /\ pc' = "idle"
            /\ closing' = None
            /\ last' = Op("close_window", closing, "", 0, "raise_no_window")
       ELSE /\ handles' = close_driver(handles, cur)
            /\ pc' = "closed"
            /\ UNCHANGED closing
            /\ last' = Op("close_window", closing, "", 0, "ok")
    /\ cur' = NoWindow
    /\ UNCHANGED <<nextHandle, all_tabs, schedVars, running, pending, start_time,
                   max_time, sleep_time, tickAt, tickLog, runCalls, now, horizon>>

\* The rest of _remove_tab and of close_tab: the asserts after the close,
\* last_tab.switch, humanized_wait(1), switch_to_last_tab, return True.
close_finish(w) ==
    LET lt == last_tab(all_tabs)
    IN  /\ pc = "closed"
        /\ IF is_alive(closing, handles) \/ exist(closing, all_tabs)
           THEN /\ UNCHANGED <<cur, now>>
                /\ last' = Op("close_finish", closing, "", 0, "raise_assert")
           ELSE IF lt # None /\ SwitchResult(lt, handles, cur) = "raise"
           THEN /\ UNCHANGED <<cur, now>>
                /\ last' = Op("close_finish", closing, "", 0, "raise_dead")
           ELSE /\ cur' = switch_to_last_tab(all_tabs, handles,
                              IF lt = None THEN cur ELSE SwitchFocus(lt, handles, cur))
                /\ now' = now + w
                /\ last' = Op("close_finish", closing, "", 0, "true")
        /\ pc' = "idle"
        /\ closing' = None
        /\ UNCHANGED <<handles, nextHandle, all_tabs, schedVars, running, pending,
                       start_time, max_time, sleep_time, tickAt, tickLog, runCalls,
                       horizon>>

\* A call of Tab.switch by the caller, on any Tab object the caller holds (the
\* Tab of window 0 comes from unmanaged_tabs).
switch(t) ==
    /\ pc = "idle"
    /\ t \in 0..(nextHandle - 1)
    /\ now <= horizon
    /\ cur' = SwitchFocus(t, handles, cur)
    /\ last' = Op("switch", t, "", 0, SwitchResult(t, handles, cur))
    /\ UNCHANGED <<handles, nextHandle, all_tabs, schedVars, loopVars, closing, now, horizon>>

\* A window closed outside the registry (by the user, by the page, or by code
\* that calls driver.close() itself).  Window 0 is taken to stay open.
ExternalClose(h) ==
    /\ h \in handles \ {0}
    /\ handles' = handles \ {h}
    /\ cur' = IF cur = h THEN NoWindow ELSE cur
    /\ last' = Op("external_close", h, "", 0, "")
    /\ UNCHANGED <<nextHandle, all_tabs, schedVars, loopVars, closing, now, horizon>>

\* TabManager.create called by the caller with any handle it knows: a Tab
\* object is built and TabManager.add stores it under its handle.  The registry
\* is modelled by its handles in order, so a Tab object put in the place of
\* another with the same handle leaves the list as it was.
create(h) ==
    /\ pc = "idle"
    /\ h \in 0..(nextHandle - 1)
    /\ now <= horizon
    /\ all_tabs' = add(all_tabs, h)
    /\ last' = Op("create", h, "", 0, "ok")
    /\ UNCHANGED <<handles, cur, nextHandle, schedVars, loopVars, closing, now, horizon>>

\* TabManager.switch_to_last_tab and TabManager.switch_to_first_tab called by
\* the caller.
manager_switch_to_last_tab ==
    /\ pc = "idle"
    /\ now <= horizon
    /\ cur' = switch_to_last_tab(all_tabs, handles, cur)
    /\ last' = Op("switch_to_last_tab", last_tab(all_tabs), "", 0,
                  switch_to_tab_answer(last_tab(all_tabs), all_tabs, handles))
    /\ UNCHANGED <<handles, nextHandle, all_tabs, schedVars, loopVars, closing,
                   now, horizon>>

manager_switch_to_first_tab ==
    /\ pc = "idle"
    /\ now <= horizon
    /\ cur' = switch_to_first_tab(all_tabs, handles, cur)
    /\ last' = Op("switch_to_first_tab", first_tab(all_tabs), "", 0,
                  switch_to_tab_answer(first_tab(all_tabs), all_tabs, handles))
    /\ UNCHANGED <<handles, nextHandle, all_tabs, schedVars, loopVars, closing,
                   now, horizon>>

\* The handles of every window.
new_windows_all(after, before) == after

\* set(self.driver.window_handles) - windows_before in get_blank_tab.
new_windows(after, before) == after \ before

\* TabManager.get_blank_tab: the handles before, window.open in the current
\* window, SeleniumOpenTabException when no handle is new, else
\* driver.switch_to.window on one of the new handles, create, new_tab.switch.
get_blank_tab(outcome) ==
    LET after == IF outcome = "blocked" THEN handles ELSE handles \cup {nextHandle}
        new_window == new_windows(after, handles)
    IN  /\ pc = "idle"
        /\ nextHandle <= MaxTabs
        /\ now <= horizon
        /\ IF cur = NoWindow
           THEN /\ UNCHANGED <<handles, cur, nextHandle, all_tabs>>
                /\ last' = Op("get_blank_tab", None, "", 0, "raise_no_window")
           ELSE /\ handles' = after
                /\ nextHandle' = IF outcome = "blocked" THEN nextHandle
                                                      ELSE nextHandle + 1
                /\ IF new_window = {}
                   THEN /\ UNCHANGED <<cur, all_tabs>>
                        /\ last' = Op("get_blank_tab", None, "", 0, "raise_open")
                   ELSE \E h \in new_window :
                            /\ all_tabs' = add(all_tabs, h)
                            /\ cur' = SwitchFocus(h, after, h)
                            /\ last' = Op("get_blank_tab", h, "", 0, "ok")
        /\ UNCHANGED <<schedVars, loopVars, closing, now, horizon>>

\* A driver that is handed out without a look at the current window.
driver_no_switch(t, hs, c) == c

\* Tab.driver: the current window after the property was read.  A dead tab
\* raises before anything is switched, a tab that is not active is switched to
\* through Session.switch_to_window_handle.
driver(t, hs, c) ==
    IF ~is_alive(t, hs) THEN c
    ELSE IF ~is_active(t, c) THEN t
    ELSE c

\* Any attribute of a Tab that Tab.__getattribute__ resolves through
\* Tab.driver (title, url, page_source, run_js, find_element, ...).  On a dead
\* tab the SeleniumRequestException of Tab.driver is suppressed by
\* __getattribute__, which then reads self.driver again, and so on until the
\* interpreter raises RecursionError.
driver_op(t) ==
    /\ pc = "idle"
    /\ t \in 0..(nextHandle - 1)
    /\ now <= horizon
    /\ cur' = driver(t, handles, cur)
    /\ last' = Op("driver_op", t, "", 0,
                  IF is_alive(t, handles) THEN "ok" ELSE "raise_recursion")
    /\ UNCHANGED <<handles, nextHandle, all_tabs, schedVars, loopVars, closing, now, horizon>>

\* ------------------------------------------------- BrowserTaskScheduler
\* list.remove(x): the list without its first x.
RemoveFirst(seq, x) ==
    IF \E i \in 1..Len(seq) : seq[i] = x
    THEN LET k == CHOOSE i \in 1..Len(seq) :
                      seq[i] = x /\ \A m \in 1..(i - 1) : seq[m] # x
         IN  SubSeq(seq, 1, k - 1) \o SubSeq(seq, k + 1, Len(seq))
    ELSE seq

\* A job that is due as soon as it is registered.
NewJob_due_at_once(id, name, tab, period, t) ==
    [id |-> id, name |-> name, tab |-> tab, period |-> period * Second,
     last_run |-> None, next_run |-> t]

\* schedule.every(period).seconds.do(...): a new Job, first due one period
\* from now, appended to the library's job list.
NewJob(id, name, tab, period, t) ==
    [id |-> id, name |-> name, tab |-> tab, period |-> period * Second,
     last_run |-> None, next_run |-> t + period * Second]

\* schedule_task: what it leaves in _tasks, given the name and the new job.
StoreTask(ts, name, id) ==
    [n \in DOMAIN ts \cup {name} |-> IF n = name THEN id ELSE ts[n]]

\* schedule_task: the job list after the registration.
ScheduleJob(js, job) == Append(js, job)

\* A test that lets the period 0 through.
period_rejected_negative(period) == period < 0

\* schedule_task: "if period <= 0: raise ValueError".
period_rejected(period) == period <= 0

schedule_task(tab, name, period) ==
    /\ pc = "idle"
    /\ tab \in 1..(nextHandle - 1)
    /\ now <= horizon
    /\ IF period_rejected(period)
       THEN /\ UNCHANGED schedVars
            /\ last' = Op("schedule_task", tab, name, 0, "raise_value")
       ELSE /\ nextJob <= MaxJobs
            /\ jobs' = ScheduleJob(jobs, NewJob(nextJob, name, tab, period, now))
            /\ nextJob' = nextJob + 1
            /\ tasks' = StoreTask(tasks, name, nextJob)
            /\ task_status' =
                   [n \in DOMAIN task_status \cup {name} |->
                       IF n = name THEN TRUE ELSE task_status[n]]
            /\ tab_tasks' =
                   [t \in DOMAIN tab_tasks \cup {tab} |->
                       IF t = tab
                       THEN Append(IF tab \in DOMAIN tab_tasks
                                   THEN tab_tasks[tab] ELSE <<>>, name)
                       ELSE tab_tasks[t]]
            /\ last' = Op("schedule_task", tab, name, nextJob, "ok")
    /\ UNCHANGED <<driverVars, all_tabs, loopVars, closing, now, horizon>>

\* A cancel_job that leaves the job in the list.
cancel_job_none(js, id) == js

\* schedule.cancel_job: the job list without that Job object.
cancel_job(js, id) == SelectSeq(js, LAMBDA j : j.id # id)

\* A cancel_task that leaves the entry of the name in _tasks.
DropTask_keep(ts, name) == ts

\* del self._tasks[task_name]
DropTask(ts, name) == [n \in DOMAIN ts \ {name} |-> ts[n]]

cancel_task(name) ==
    /\ pc = "idle"
    /\ now <= horizon
    /\ IF name \in DOMAIN tasks
       THEN /\ jobs' = cancel_job(jobs, tasks[name])
            /\ tasks' = DropTask(tasks, name)
            /\ task_status' =
                   [n \in DOMAIN task_status \cup {name} |->
                       IF n = name THEN FALSE ELSE task_status[n]]
            /\ tab_tasks' =
                   [t \in DOMAIN tab_tasks |-> RemoveFirst(tab_tasks[t], name)]
            /\ last' = Op("cancel_task", None, name, tasks[name], "true")
       ELSE /\ UNCHANGED <<jobs, tasks, task_status, tab_tasks>>
            /\ last' = Op("cancel_task", None, name, 0, "false")
    /\ UNCHANGED <<driverVars, all_tabs, nextJob, loopVars, closing, now, horizon>>

\* self._task_status.get(task_name, False)
is_task_running(name) ==
    IF name \in DOMAIN task_status THEN task_status[name] ELSE FALSE

\* A cancellation that forgets to mark the task as not running.
cancel_one_status_kept(st, name) ==
    IF name \in DOMAIN st.tasks
    THEN [st EXCEPT !.jobs = cancel_job(st.jobs, st.tasks[name]),
                    !.tasks = DropTask(st.tasks, name)]
    ELSE st

\* cancel_task as a function of the scheduler's state st = [jobs, tasks,
\* task_status, tab_tasks], for the calls cancel_tab_tasks makes.
cancel_one(st, name) ==
    IF name \in DOMAIN st.tasks
    THEN [jobs |-> cancel_job(st.jobs, st.tasks[name]),
          tasks |-> DropTask(st.tasks, name),
          task_status |->
              [n \in DOMAIN st.task_status \cup {name} |->
                  IF n = name THEN FALSE ELSE st.task_status[n]],
          tab_tasks |->
              [t \in DOMAIN st.tab_tasks |-> RemoveFirst(st.tab_tasks[t], name)]]
    ELSE st

\* cancel_task called by the callback that run_pending has just run (the
\* dispatch step that ended "ok", followed by this one).  The list of due jobs
\* that run_pending is going through was built at the top of the tick and is
\* not touched.
callback_cancel(name) ==
    /\ pc = "pending"
    /\ last.op = "dispatch"
    /\ last.res = "ok"
    /\ LET st == cancel_one([jobs |-> jobs, tasks |-> tasks,
                             task_status |-> task_status,
                             tab_tasks |-> tab_tasks], name)
       IN  /\ jobs' = st.jobs
           /\ tasks' = st.tasks
           /\ task_status' = st.task_status
           /\ tab_tasks' = st.tab_tasks
    /\ last' = IF name \in DOMAIN tasks
               THEN Op("callback_cancel", last.tab, name, tasks[name], "true")
               ELSE Op("callback_cancel", last.tab, name, 0, "false")
    /\ UNCHANGED <<driverVars, all_tabs, nextJob, loopVars, closing, now, horizon>>

\* "for task_name in self._tab_tasks[tab]: self.cancel_task(task_name)": the
\* list iterator goes by index over the very list cancel_task removes from.
RECURSIVE cancel_each(_, _, _)
cancel_each(st, tab, i) ==
    IF i > Len(st.tab_tasks[tab]) THEN st
    ELSE cancel_each(cancel_one(st, st.tab_tasks[tab][i]), tab, i + 1)

cancel_tab_tasks(tab) ==
    /\ pc = "idle"
    /\ tab \in 1..(nextHandle - 1)
    /\ now <= horizon
    /\ IF tab \in DOMAIN tab_tasks
       THEN LET st == cancel_each([jobs |-> jobs, tasks |-> tasks,
                                   task_status |-> task_status,
                                   tab_tasks |-> tab_tasks], tab, 1)
            IN  /\ jobs' = st.jobs
                /\ tasks' = st.tasks
                /\ task_status' = st.task_status
                /\ tab_tasks' = [t \in DOMAIN st.tab_tasks \ {tab} |->
                                     st.tab_tasks[t]]
       ELSE UNCHANGED <<jobs, tasks, task_status, tab_tasks>>
    /\ last' = Op("cancel_tab_tasks", tab, "", 0, "")
    /\ UNCHANGED <<driverVars, all_tabs, nextJob, loopVars, closing, now, horizon>>

\* A clear that leaves the library's job list as it is.
clear_none(js) == js

\* schedule.clear(): the default scheduler's job list, emptied.
clear(js) == <<>>

cancel_all_tasks ==
    /\ pc = "idle"
    /\ now <= horizon
    /\ jobs' = clear(jobs)
    /\ tasks' = EmptyMap
    /\ tab_tasks' = EmptyMap
    /\ task_status' = EmptyMap
    /\ last' = Op("cancel_all_tasks", None, "", 0, "")
    /\ UNCHANGED <<driverVars, all_tabs, nextJob, loopVars, closing, now, horizon>>

\* Browser.close: cancel_all_tasks, TabManager.clear, Session.close
\* (driver.quit closes every window).
close ==
    /\ pc = "idle"
    /\ now <= horizon
    /\ jobs' = clear(jobs)
    /\ tasks' = EmptyMap
    /\ tab_tasks' = EmptyMap
    /\ task_status' = EmptyMap
    /\ all_tabs' = <<>>
    /\ handles' = {}
    /\ cur' = NoWindow
    /\ last' = Op("close", None, "", 0, "")
    /\ UNCHANGED <<nextHandle, nextJob, loopVars, closing, now, horizon>>

\* Browser.close of another Browser of the same process: cancel_all_tasks on
\* the one task_scheduler of the module, then that Browser's own registry and
\* session, which are not this Browser's.
close_other ==
    /\ pc = "idle"
    /\ now <= horizon
    /\ jobs' = clear(jobs)
    /\ tasks' = EmptyMap
    /\ tab_tasks' = EmptyMap
    /\ task_status' = EmptyMap
    /\ last' = Op("close_other", None, "", 0, "")
    /\ UNCHANGED <<driverVars, all_tabs, nextJob, loopVars, closing, now, horizon>>

\* ------------------------------------------------------ execute_tasks
\* Job.should_run: datetime.now() >= next_run.
should_run(j, t) == t >= j.next_run

\* sorted(runnable_jobs): Job.__lt__ compares next_run, and Python's sort is
\* stable, so equal next_run keeps the order of the job list.
RECURSIVE sorted(_)
sorted(js) ==
    IF js = <<>> THEN <<>>
    ELSE LET k == CHOOSE i \in 1..Len(js) :
                      \A m \in 1..Len(js) :
                          \/ js[i].next_run < js[m].next_run
                          \/ js[i].next_run = js[m].next_run /\ i <= m
         IN  <<js[k]>> \o sorted(SubSeq(js, 1, k - 1) \o SubSeq(js, k + 1, Len(js)))

\* A run_pending that runs the due jobs in the order of the job list.
runnable_unsorted(js, t) == SelectSeq(js, LAMBDA j : should_run(j, t))

\* run_pending: the jobs it will run, in the order it runs them.
runnable(js, t) == sorted(SelectSeq(js, LAMBDA j : should_run(j, t)))

\* A wrapper that logs the exception and raises it again.
wrapper_reraise(sw, raises) ==
    IF sw = "raise" \/ raises THEN "raised" ELSE "ok"

\* The wrapper schedule_task puts around the callback: what the job function
\* does as seen by the library, given how tab.switch ended and whether the
\* callback raises.  Its try/except lets no exception out.
wrapper(sw, raises) ==
    IF sw = "raise" THEN "switch_failed"
    ELSE IF raises THEN "callback_raised"
    ELSE "ok"

\* A Job.run that keeps the job on the grid of its first due time.
reschedule_fixed_rate(js, id, t) ==
    [i \in 1..Len(js) |->
        IF js[i].id = id
        THEN [js[i] EXCEPT !.last_run = t, !.next_run = js[i].next_run + js[i].period]
        ELSE js[i]]

\* Job.run, after the job function returned: last_run and _schedule_next_run.
reschedule(js, id, t) ==
    [i \in 1..Len(js) |->
        IF js[i].id = id
        THEN [js[i] EXCEPT !.last_run = t, !.next_run = t + js[i].period]
        ELSE js[i]]

execute_tasks(m, d) ==
    /\ pc = "idle"
    /\ now <= horizon
    /\ IF d <= 0
       THEN /\ UNCHANGED loopVars
            /\ last' = Op("execute_tasks", None, "", 0, "raise_value")
       ELSE /\ running' = TRUE
            /\ start_time' = now
            /\ max_time' = m
            /\ sleep_time' = d
            /\ pc' = "top"
            /\ pending' = <<>>
            /\ tickLog' = <<>>
            /\ runCalls' = 0
            /\ UNCHANGED tickAt
            /\ last' = Op("execute_tasks", None, "", 0, "started")
    /\ UNCHANGED <<driverVars, all_tabs, closing, schedVars, now, horizon>>

\* A loop that goes on whatever _running says.
loop_continues_always(r) == TRUE

\* "while self._running"
loop_continues(r) == r

\* A finally clause that leaves _running as it finds it.
on_exit_keep(r) == r

\* "finally: self._running = False"
on_exit(r) == FALSE

\* "if max_time and time.time() - start_time > max_time": None and 0 are
\* both false in Python.
budget_exceeded(m, elapsed) == m # None /\ m # 0 /\ elapsed > m

\* The loop's test of _running and the start of schedule.run_pending.
run_pending ==
    /\ pc = "top"
    /\ loop_continues(running)
    /\ pending' = runnable(jobs, now)
    /\ tickAt' = now
    /\ tickLog' = <<>>
    /\ pc' = "pending"
    /\ last' = Op("run_pending", None, "", 0, "")
    /\ UNCHANGED <<driverVars, all_tabs, closing, schedVars, running, start_time,
                   max_time, sleep_time, runCalls, now, horizon>>

\* run_pending runs its next job: the wrapper switches to the job's tab,
\* sleeps the settle delay and calls the callback; Job.run then sets the next
\* run.  An exception that left the wrapper would leave Job.run and
\* run_pending too and be logged by execute_tasks.
dispatch ==
    /\ pc = "pending"
    /\ pending # <<>>
    /\ LET j == Head(pending)
           sw == SwitchResult(j.tab, handles, cur)
           out == wrapper(sw, Raises(j.name))
           t1 == IF sw = "raise" THEN now ELSE now + SettleDelay
       IN  /\ cur' = SwitchFocus(j.tab, handles, cur)
           /\ now' = t1
           /\ runCalls' = IF sw = "raise" THEN runCalls ELSE runCalls + 1
           /\ IF out = "raised"
              THEN /\ jobs' = jobs
                   /\ pending' = <<>>
              ELSE /\ jobs' = reschedule(jobs, j.id, t1)
                   /\ pending' = Tail(pending)
           /\ tickLog' = Append(tickLog, [job |-> j.id, name |-> j.name,
                                         tab |-> j.tab, prev |-> j.last_run,
                                         res |-> out])
           /\ last' = Op("dispatch", j.tab, j.name, j.id, out)
    /\ UNCHANGED <<handles, nextHandle, all_tabs, closing, nextJob, tasks, task_status,
                   tab_tasks, running, pc, start_time, max_time, sleep_time,
                   tickAt, horizon>>

\* The wrapper followed statement by statement, so that a window closed from
\* outside can fall into its settle delay.
\* wrapper_switch: tab.switch() and time.sleep(0.25); when the switch raises,
\* the except clause ends the wrapper and Job.run sets the next run.
wrapper_switch ==
    /\ pc = "pending"
    /\ pending # <<>>
    /\ LET j == Head(pending)
           sw == SwitchResult(j.tab, handles, cur)
       IN  /\ cur' = SwitchFocus(j.tab, handles, cur)
           /\ IF sw = "raise"
              THEN /\ jobs' = reschedule(jobs, j.id, now)
                   /\ pending' = Tail(pending)
                   /\ tickLog' = Append(tickLog,
                                        [job |-> j.id, name |-> j.name, tab |-> j.tab,
                                         prev |-> j.last_run,
                                         res |-> wrapper(sw, Raises(j.name))])
                   /\ UNCHANGED <<pc, now>>
              ELSE /\ pc' = "settle"
                   /\ now' = now + SettleDelay
                   /\ UNCHANGED <<jobs, pending, tickLog>>
           /\ last' = Op("wrapper_switch", j.tab, j.name, j.id, sw)
    /\ UNCHANGED <<handles, nextHandle, all_tabs, closing, nextJob, tasks,
                   task_status, tab_tasks, running, start_time, max_time,
                   sleep_time, tickAt, runCalls, horizon>>

\* wrapper_call: task(tab, *args, **kwargs) after the settle delay, without
\* another look at the tab; Job.run then sets the next run.
wrapper_call ==
    /\ pc = "settle"
    /\ LET j == Head(pending)
           out == wrapper("true", Raises(j.name))
       IN  /\ runCalls' = runCalls + 1
           /\ jobs' = reschedule(jobs, j.id, now)
           /\ pending' = Tail(pending)
           /\ tickLog' = Append(tickLog, [job |-> j.id, name |-> j.name,
                                         tab |-> j.tab, prev |-> j.last_run,
                                         res |-> out])
           /\ last' = Op("wrapper_call", j.tab, j.name, j.id, out)
    /\ pc' = "pending"
    /\ UNCHANGED <<driverVars, all_tabs, closing, nextJob, tasks, task_status,
                   tab_tasks, running, start_time, max_time, sleep_time, tickAt,
                   now, horizon>>

\* After run_pending: time.sleep(sleep_time), then the max_time test; the
\* finally clause clears _running when the loop is left.
sleep ==
    /\ pc = "pending"
    /\ pending = <<>>
    /\ (max_time = None \/ max_time = 0) =>
           now + sleep_time - start_time <= LoopMaxSpan
    /\ now' = now + sleep_time
    /\ IF budget_exceeded(max_time, now' - start_time)
       THEN /\ running' = on_exit(running)
            /\ pc' = "idle"
            /\ tickLog' = <<>>
            /\ last' = Op("execute_tasks", None, "", 0, "return")
       ELSE /\ pc' = "top"
            /\ running' = running
            /\ tickLog' = tickLog
            /\ last' = Op("sleep", None, "", 0, "")
    /\ UNCHANGED <<driverVars, all_tabs, closing, schedVars, pending, start_time,
                   max_time, sleep_time, tickAt, runCalls, horizon>>

\* The loop's test of _running found it False: the loop is left, the finally
\* clause runs and execute_tasks returns.
loop_exit ==
    /\ pc = "top"
    /\ ~loop_continues(running)
    /\ running' = on_exit(running)
    /\ pc' = "idle"
    /\ tickLog' = <<>>
    /\ last' = Op("execute_tasks", None, "", 0, "return")
    /\ UNCHANGED <<driverVars, all_tabs, closing, schedVars, pending, start_time,
                   max_time, sleep_time, tickAt, runCalls, now, horizon>>

\* BrowserTaskScheduler.stop, called from another thread or by a callback
\* (a dispatch step followed by this one): it writes _running and no more.
stop ==
    /\ running' = FALSE
    /\ last' = Op("stop", None, "", 0, "")
    /\ UNCHANGED <<driverVars, all_tabs, closing, schedVars, pc, pending, start_time,
                   max_time, sleep_time, tickAt, tickLog, runCalls, now,
                   horizon>>

\* What "except Exception" does not catch, raised inside the loop.
Interrupts == {"KeyboardInterrupt", "SystemExit"}

\* A KeyboardInterrupt (Ctrl-C) or another BaseException raised while the
\* loop runs, in run_pending, in a callback or in time.sleep: neither the
\* wrapper nor the inner try catches it; execute_tasks catches the first and
\* returns, the second leaves it; the finally clause runs for both.
interrupt(kind) ==
    /\ pc \in {"top", "pending"}
    /\ running' = on_exit(running)
    /\ pc' = "idle"
    /\ pending' = <<>>
    /\ tickLog' = <<>>
    /\ last' = Op("interrupt", None, kind, 0,
                  IF kind = "KeyboardInterrupt" THEN "return" ELSE "raise")
    /\ UNCHANGED <<driverVars, all_tabs, closing, schedVars, start_time, max_time,
                   sleep_time, tickAt, runCalls, now, horizon>>

Next ==
    \/ \E outcome \in OpenOutcomes, w \in HumanizedWaits : open(outcome, w)
    \/ \E t \in 0..MaxTabs, w \in HumanizedWaits : close_tab(t, w)
    \/ \E t \in 0..MaxTabs : switch(t)
    \/ \E h \in 1..MaxTabs : ExternalClose(h)
    \/ \E t \in 1..MaxTabs, name \in Names, period \in Periods :
           schedule_task(t, name, period)
    \/ \E name \in Names : cancel_task(name)
    \/ \E t \in 1..MaxTabs : cancel_tab_tasks(t)
    \/ cancel_all_tasks
    \/ close
    \/ \E m \in MaxTimes, d \in SleepTimes : execute_tasks(m, d)
    \/ run_pending
    \/ dispatch
    \/ sleep

Spec == Init /\ [][Next]_vars

\* The registry and the driver alone, over a longer session: no job is ever
\* registered, so the scheduler stays as it starts.
InitTabs == Start /\ horizon = TabsMaxNow

NextTabs ==
    \/ \E outcome \in OpenOutcomes, w \in HumanizedWaits : open(outcome, w)
    \/ \E t \in 0..MaxTabs, w \in HumanizedWaits : close_tab(t, w)
    \/ \E t \in 0..MaxTabs : switch(t)
    \/ \E h \in 1..MaxTabs : ExternalClose(h)

SpecTabs == InitTabs /\ [][NextTabs]_vars

\* The registry used directly: the caller also reaches for TabManager.create,
\* TabManager.get_blank_tab and the driver-backed attributes of the Tab
\* objects it holds.
ManagerOutcomes == {"ok", "blocked"}

InitManager == Start /\ horizon = ManagerMaxNow

NextManager ==
    \/ NextTabs
    \/ \E h \in 0..MaxTabs : create(h)
    \/ \E outcome \in ManagerOutcomes : get_blank_tab(outcome)
    \/ \E t \in 0..MaxTabs : driver_op(t)
    \/ manager_switch_to_last_tab
    \/ manager_switch_to_first_tab

SpecManager == InitManager /\ [][NextManager]_vars

\* Every operation of the caller together: those of the whole program and
\* those of the registry used directly, over a shorter session, with one
\* callback on the first tab and the caller's own steps on the first windows.
InitFocus == Start /\ horizon = FocusMaxNow

FocusNames == {"check_time"}
FocusPeriods == {1}
FocusTabs == {1}
FocusHandles == {0, 1, 2}

NextFocus ==
    \/ \E outcome \in OpenOutcomes, w \in HumanizedWaits : open(outcome, w)
    \/ \E t \in FocusHandles, w \in HumanizedWaits : close_tab(t, w)
    \/ \E t \in FocusHandles : switch(t)
    \/ \E h \in FocusHandles : ExternalClose(h)
    \/ \E h \in FocusTabs : create(h)
    \/ \E outcome \in ManagerOutcomes : get_blank_tab(outcome)
    \/ \E t \in FocusHandles : driver_op(t)
    \/ \E t \in FocusTabs, name \in FocusNames, period \in FocusPeriods :
           schedule_task(t, name, period)
    \/ \E name \in FocusNames : cancel_task(name)
    \/ \E t \in FocusTabs : cancel_tab_tasks(t)
    \/ cancel_all_tasks
    \/ close
    \/ \E m \in MaxTimes, d \in SleepTimes : execute_tasks(m, d)
    \/ run_pending
    \/ dispatch
    \/ sleep

SpecFocus == InitFocus /\ [][NextFocus]_vars

\* The registry with close_tab followed statement by statement.
InitClose == Start /\ horizon = CloseMaxNow

NextClose ==
    \/ \E outcome \in OpenOutcomes, w \in HumanizedWaits : open(outcome, w)
    \/ \E t \in 0..MaxTabs : close_begin(t)
    \/ close_remove
    \/ close_window
    \/ \E w \in HumanizedWaits : close_finish(w)
    \/ \E t \in 0..MaxTabs : switch(t)
    \/ \E h \in 1..MaxTabs : ExternalClose(h)

SpecClose == InitClose /\ [][NextClose]_vars

\* One job on one open tab, registered at clock value 0, and one call of
\* execute_tasks at that same moment (the clock's origin is arbitrary).
CadencePeriods == {1, 2}
CadenceSleeps == {1, 2}
CadenceMaxTimes == {k * Second : k \in 1..CadenceMaxSeconds}

InitCadence ==
    /\ handles = {0, 1}
    /\ cur = 1
    /\ nextHandle = 2
    /\ all_tabs = <<1>>
    /\ closing = None
    /\ \E p \in CadencePeriods : jobs = <<NewJob(1, "check_time", 1, p, 0)>>
    /\ nextJob = 2
    /\ tasks = [n \in {"check_time"} |-> 1]
    /\ task_status = [n \in {"check_time"} |-> TRUE]
    /\ tab_tasks = [t \in {1} |-> <<"check_time">>]
    /\ running = FALSE
    /\ pc = "idle"
    /\ pending = <<>>
    /\ start_time = 0
    /\ max_time = None
    /\ sleep_time = 0
    /\ tickAt = 0
    /\ tickLog = <<>>
    /\ runCalls = 0
    /\ now = 0
    /\ horizon = 0
    /\ last = Op("schedule_task", 1, "check_time", 1, "ok")

NextCadence ==
    \/ \E m \in CadenceMaxTimes, d \in CadenceSleeps : execute_tasks(m, d)
    \/ run_pending
    \/ dispatch
    \/ sleep

SpecCadence == InitCadence /\ [][NextCadence]_vars

\* The run loop alone: two jobs on two open tabs, registered at clock value
\* 0, and execute_tasks with and without a time limit, stopped, interrupted
\* or left to its limit.
LoopMaxTimes == {None, 0, 1 * Second, 2 * Second}
LoopSleeps == {0, 2, 4}
LoopPeriods == {1, 2}

InitLoop ==
    /\ handles = {0, 1, 2}
    /\ cur = 2
    /\ nextHandle = 3
    /\ all_tabs = <<1, 2>>
    /\ closing = None
    /\ \E p \in LoopPeriods :
           jobs = <<NewJob(1, "failing_task", 1, 1, 0),
                    NewJob(2, "check_time", 2, p, 0)>>
    /\ nextJob = 3
    /\ tasks = [n \in Names |-> IF n = "failing_task" THEN 1 ELSE 2]
    /\ task_status = [n \in Names |-> TRUE]
    /\ tab_tasks = [t \in {1, 2} |->
                       IF t = 1 THEN <<"failing_task">> ELSE <<"check_time">>]
    /\ running = FALSE
    /\ pc = "idle"
    /\ pending = <<>>
    /\ start_time = 0
    /\ max_time = None
    /\ sleep_time = 0
    /\ tickAt = 0
    /\ tickLog = <<>>
    /\ runCalls = 0
    /\ now = 0
    /\ horizon = 0
    /\ last = Op("schedule_task", 2, "check_time", 2, "ok")

NextLoop ==
    \/ \E m \in LoopMaxTimes, d \in LoopSleeps : execute_tasks(m, d)
    \/ run_pending
    \/ dispatch
    \/ sleep
    \/ loop_exit
    \/ stop
    \/ \E kind \in Interrupts : interrupt(kind)

SpecLoop == InitLoop /\ [][NextLoop]_vars

\* The run loop with the wrapper followed statement by statement, and windows
\* closed from outside while it runs.
NextWrapper ==
    \/ \E m \in LoopMaxTimes, d \in LoopSleeps : execute_tasks(m, d)
    \/ run_pending
    \/ wrapper_switch
    \/ wrapper_call
    \/ sleep
    \/ \E h \in 1..MaxTabs : ExternalClose(h)

SpecWrapper == InitLoop /\ [][NextWrapper]_vars

\* The poll ticks of one execute_tasks: two jobs of either period on two open
\* tabs, both registered at clock value 0, the second one with a callback that
\* raises; windows closed from outside, and callbacks that cancel a task.
TickPeriods == {1, 2}
TickMaxTimes == {None, 2 * Second}
TickSleeps == {2, 8}

InitTick ==
    /\ handles = {0, 1, 2}
    /\ cur = 2
    /\ nextHandle = 3
    /\ all_tabs = <<1, 2>>
    /\ closing = None
    /\ \E p1, p2 \in TickPeriods :
           jobs = <<NewJob(1, "check_time", 1, p1, 0),
                    NewJob(2, "failing_task", 2, p2, 0)>>
    /\ nextJob = 3
    /\ tasks = [n \in Names |-> IF n = "check_time" THEN 1 ELSE 2]
    /\ task_status = [n \in Names |-> TRUE]
    /\ tab_tasks = [t \in {1, 2} |->
                       IF t = 1 THEN <<"check_time">> ELSE <<"failing_task">>]
    /\ running = FALSE
    /\ pc = "idle"
    /\ pending = <<>>
    /\ start_time = 0
    /\ max_time = None
    /\ sleep_time = 0
    /\ tickAt = 0
    /\ tickLog = <<>>
    /\ runCalls = 0
    /\ now = 0
    /\ horizon = 0
    /\ last = Op("schedule_task", 2, "failing_task", 2, "ok")

NextTick ==
    \/ \E m \in TickMaxTimes, d \in TickSleeps : execute_tasks(m, d)
    \/ run_pending
    \/ dispatch
    \/ \E name \in Names : callback_cancel(name)
    \/ sleep
    \/ \E h \in 1..MaxTabs : ExternalClose(h)

SpecTick == InitTick /\ [][NextTick]_vars

\* This Browser with its jobs, and a second Browser of the same process that
\* is closed at some moment.
NextTwo ==
    \/ \E outcome \in OpenOutcomes, w \in HumanizedWaits : open(outcome, w)
    \/ \E t \in 1..MaxTabs, name \in Names, period \in Periods :
           schedule_task(t, name, period)
    \/ close_other
    \/ \E m \in MaxTimes, d \in SleepTimes : execute_tasks(m, d)
    \/ run_pending
    \/ dispatch
    \/ sleep

SpecTwo == Init /\ [][NextTwo]_vars

\* ===================================================== registry claims
\* Handles are handed out in increasing order, so the order of the open calls
\* is the order of the handles.
Increasing(tabs) == \A i, k \in 1..Len(tabs) : i < k => tabs[i] < tabs[k]

Without(tabs, t) == SelectSeq(tabs, LAMBDA x : x # t)

\* C2 (close invariant): when close_tab(T) has returned True for a live managed
\* tab T, T is not alive, not active and not in the tab list; every other tab of
\* the list is still in it, in the same relative order, and every other window
\* that was open is still open; and if a managed tab remains, the current tab
\* is the last tab of the list.
C2_CloseInvariant ==
    [][(last'.op = "close_tab" /\ last'.res = "true") =>
          LET T == last'.tab
          IN  /\ is_alive(T, handles) /\ exist(T, all_tabs)
              /\ ~is_alive(T, handles')
              /\ ~is_active(T, cur')
              /\ ~exist(T, all_tabs')
              /\ all_tabs' = Without(all_tabs, T)
              /\ handles' = handles \ {T}
              /\ (all_tabs' # <<>> =>
                     /\ current_tab(all_tabs', cur') = last_tab(all_tabs')
                     /\ cur' = all_tabs'[Len(all_tabs')])]_vars

\* The tab between two others has been closed (the A, B, C scenario).
C2_Witness ==
    /\ last.op = "close_tab" /\ last.res = "true" /\ last.tab = 2
    /\ all_tabs = <<1, 3>>
    /\ cur = 3

\* C3 (exclusivity): when Tab.switch() on a live tab T has returned (True or
\* False), whether called by the caller or by a job's wrapper, T is the
\* driver's current window and no other live window is active; and in every
\* state at most one window is active.
C3_Exclusivity ==
    /\ ((last.op = "switch" /\ last.res \in {"true", "false"})
          \/ (last.op = "dispatch" /\ last.res # "switch_failed")) =>
           /\ cur = last.tab
           /\ is_active(last.tab, cur)
           /\ \A U \in handles \ {last.tab} : ~is_active(U, cur)
    /\ Cardinality({U \in 0..MaxTabs : is_active(U, cur)}) <= 1

\* A switch that moved the focus, with two other windows open.
C3_Witness ==
    /\ last.op = "switch" /\ last.res = "true"
    /\ cur = last.tab
    /\ Cardinality(handles) >= 3

\* C4 (ordering): the tab list holds the managed tabs in the order of their
\* open calls: an open that creates a tab appends it, a close_tab takes out
\* the tab it was given and nothing else, no other operation touches the
\* list; first_tab and last_tab are the earliest and the latest opened tab of
\* the list, and None when the list is empty.
C4_Ordering ==
    /\ [](/\ Increasing(all_tabs)
          /\ \A i \in 1..Len(all_tabs) : all_tabs[i] \in 1..(nextHandle - 1)
          /\ IF all_tabs = <<>>
             THEN first_tab(all_tabs) = None /\ last_tab(all_tabs) = None
             ELSE /\ exist(first_tab(all_tabs), all_tabs)
                  /\ exist(last_tab(all_tabs), all_tabs)
                  /\ \A i \in 1..Len(all_tabs) :
                         /\ first_tab(all_tabs) <= all_tabs[i]
                         /\ all_tabs[i] <= last_tab(all_tabs))
    /\ [][/\ nextHandle' # nextHandle =>
                 all_tabs' = Append(all_tabs, nextHandle)
          /\ (nextHandle' = nextHandle /\ last'.op = "close_tab") =>
                 all_tabs' \in {all_tabs, Without(all_tabs, last'.tab)}
          /\ (nextHandle' = nextHandle /\ last'.op # "close_tab") =>
                 all_tabs' = all_tabs]_vars

\* Three tabs were opened and the first one closed.
C4_Witness ==
    /\ all_tabs = <<2, 3>>
    /\ nextHandle = 4
    /\ first_tab(all_tabs) = 2 /\ last_tab(all_tabs) = 3

\* C5: when Browser.open has returned tab T, T is the last tab of the
\* registry, T is alive and T is the current tab.
C5_OpenFocus ==
    (last.op = "open" /\ last.res = "ok") =>
        /\ last_tab(all_tabs) = last.tab
        /\ is_alive(last.tab, handles)
        /\ is_active(last.tab, cur)
        /\ current_tab(all_tabs, cur) = last.tab

\* A third tab was opened while an older tab was closed outside the registry.
C5_Witness ==
    /\ last.op = "open" /\ last.res = "ok" /\ last.tab = 3
    /\ Len(all_tabs) = 3
    /\ ~is_alive(1, handles)

\* ==================================================== scheduler claims
Invoked(res) == res \in {"ok", "callback_raised"}

JobIds(js) == {js[i].id : i \in 1..Len(js)}

\* C1 (fault containment): a job whose callback raises, or whose tab.switch
\* fails, takes no other job out of the poll tick: while run_pending runs,
\* every job that was due when the tick began and has not been run yet is
\* still going to be run, a healthy job's callback is called whenever its
\* switch succeeds, no exception leaves the wrapper, the loop goes on after
\* every dispatch and execute_tasks ends only by returning.
C1_FaultContainment ==
    /\ pc = "pending" =>
           \A i \in 1..Len(jobs) :
               jobs[i].next_run <= tickAt => jobs[i].id \in JobIds(pending)
    /\ \A k \in 1..Len(tickLog) :
           /\ tickLog[k].res \in {"ok", "switch_failed", "callback_raised"}
           /\ ~Raises(tickLog[k].name) => tickLog[k].res \in {"ok", "switch_failed"}
    /\ last.op = "dispatch" => pc = "pending" /\ running
    /\ last.op = "execute_tasks" => last.res \in {"started", "return"}

\* In one poll tick the failing job was run first and raised, and the healthy
\* job, on another tab and with another period, was run after it.
C1_Witness ==
    /\ pc = "pending"
    /\ Len(tickLog) = 2
    /\ tickLog[1].name = "failing_task" /\ tickLog[1].res = "callback_raised"
    /\ tickLog[2].name = "check_time" /\ tickLog[2].res = "ok"
    /\ tickLog[1].tab # tickLog[2].tab
    /\ \E i, k \in 1..Len(jobs) :
           /\ jobs[i].id = tickLog[1].job /\ jobs[k].id = tickLog[2].job
           /\ jobs[i].period # jobs[k].period

\* C6 (cancellation effect), as claimed: once cancel_task(name) has returned
\* True and schedule_task has not been called for the name again (which is
\* when _task_status[name] is False), no callback registered under the name is
\* invoked.
C6_CancelStopsDispatch ==
    (last.op = "dispatch" /\ Invoked(last.res)) =>
        ~(last.name \in DOMAIN task_status /\ task_status[last.name] = FALSE)

\* C7 (re-scheduling replaces), as claimed: at most one job exists for a
\* name, and a dispatch under a registered name runs the newest registration.
C7_RescheduleReplaces ==
    /\ \A i, k \in 1..Len(jobs) : jobs[i].name = jobs[k].name => i = k
    /\ (last.op = "dispatch" /\ last.name \in DOMAIN tasks) =>
           last.job = tasks[last.name]

ClosedTabs == {t \in 1..(nextHandle - 1) : ~exist(t, all_tabs)}

ListedNames(t) ==
    IF t \in DOMAIN tab_tasks
    THEN {tab_tasks[t][i] : i \in 1..Len(tab_tasks[t])}
    ELSE {}

\* C9 (tasks are cancelled when their tab is closed), as claimed: when a run
\* window that follows close_tab(T) has ended, is_task_running is false for
\* the tasks scheduled on T and true for those on the tabs still open.
C9_CancelledOnTabClose ==
    (last.op = "execute_tasks" /\ last.res = "return") =>
        /\ \A t \in ClosedTabs : \A n \in ListedNames(t) : ~is_task_running(n)
        /\ \A t \in 1..(nextHandle - 1) \ ClosedTabs :
               \A n \in ListedNames(t) : is_task_running(n)

\* The one job of the cadence specification.
CadencePeriod == jobs[1].period

CadenceDone == last.op = "execute_tasks" /\ last.res = "return"

\* C10 (scheduling cadence), as claimed: with sleep_time at most a quarter of
\* the period and the period at most a quarter of max_time, the callback is
\* invoked between floor(m/p) - 1 and floor(m/p) + 1 times in the run.
C10_Cadence ==
    (CadenceDone /\ 4 * sleep_time <= CadencePeriod /\ 4 * CadencePeriod <= max_time) =>
        /\ runCalls >= (max_time \div CadencePeriod) - 1
        /\ runCalls <= (max_time \div CadencePeriod) + 1

\* C10 as amended: the callback is invoked at most floor(m/p) times and at
\* least floor(m / (p + d + settle delay)) times: every run is put one period
\* after the end of the previous dispatch, which the settle delay and the
\* wait for the next poll tick push back.
C10_CadenceAmended ==
    CadenceDone =>
        /\ runCalls <= max_time \div CadencePeriod
        /\ runCalls >= max_time \div (CadencePeriod + sleep_time + SettleDelay)

\* A run of 8 s with a 1 s period and a 0.25 s poll: 6 invocations, not 7..9.
C10_Witness ==
    /\ CadenceDone
    /\ max_time = 8 * Second /\ CadencePeriod = Second /\ sleep_time = 1
    /\ runCalls = 6

\* ============================================= error and re-switch claims
Listed(t, tabs) == \E i \in 1..Len(tabs) : tabs[i] = t

\* C14 (close_tab of a non-member): close_tab on a tab that is not in the
\* registry, whether it was never opened through it or was closed by an
\* earlier close_tab, raises 'Tab does not exist.' and leaves the registry,
\* the live windows and the focused window as they were.
C14_CloseNonMember ==
    [][(last'.op = "close_tab" /\ ~Listed(last'.tab, all_tabs)) =>
           /\ last'.res = "raise_not_exist"
           /\ all_tabs' = all_tabs
           /\ handles' = handles
           /\ cur' = cur]_vars

\* close_tab was called again on a tab it had closed before, with another
\* managed tab still open and focused.
C14_Witness ==
    /\ last.op = "close_tab" /\ last.res = "raise_not_exist"
    /\ last.tab >= 1 /\ last.tab \notin handles
    /\ all_tabs # <<>>
    /\ cur = last_tab(all_tabs)

\* C15 (switch to a dead tab): Tab.switch on a tab whose handle is not among
\* the driver's live handles raises, to the caller as to the job wrapper:
\* it returns neither True nor False and the driver's current window is the
\* one it was, so the driver's focus operation was not called.
C15_SwitchDead ==
    [][/\ (last'.op = "switch" /\ last'.tab \notin handles) =>
              last'.res = "raise" /\ cur' = cur
       /\ (last'.op = "dispatch" /\ last'.tab \notin handles) =>
              last'.res = "switch_failed" /\ cur' = cur]_vars

\* The caller switched to a closed tab while another managed tab had the
\* focus, and that tab still has it.
C15_Witness ==
    /\ last.op = "switch" /\ last.res = "raise"
    /\ last.tab \notin handles
    /\ cur \in handles /\ cur # 0 /\ Listed(cur, all_tabs)

\* C16 (idempotent re-switch): switch() returns False exactly when the tab is
\* the current window already and True exactly when it is alive and not the
\* current window; on the current window it changes no focus, and a second
\* switch() right after it returns False again and changes no focus either.
C16_ReSwitch ==
    [][last'.op = "switch" =>
           /\ (last'.res = "false") <=> (cur = last'.tab)
           /\ (last'.res = "true") <=> (last'.tab \in handles /\ cur # last'.tab)
           /\ (cur = last'.tab) =>
                  /\ cur' = cur
                  /\ SwitchResult(last'.tab, handles', cur') = "false"
                  /\ SwitchFocus(last'.tab, handles', cur') = cur']_vars

\* switch() has returned False on the focused tab, with other windows open.
C16_Witness ==
    /\ last.op = "switch" /\ last.res = "false"
    /\ cur = last.tab /\ last.tab # 0
    /\ Cardinality(handles) >= 3

\* C17 (invalid period): schedule_task with period <= 0 raises ValueError and
\* registers nothing: the job list the run loop dispatches from, _tasks,
\* _task_status and _tab_tasks are what they were.
C17_InvalidPeriod ==
    [][/\ \A t \in 1..MaxTabs, n \in Names, p \in {q \in Periods : q <= 0} :
              schedule_task(t, n, p) => last'.res = "raise_value"
       /\ (last'.op = "schedule_task" /\ last'.res = "raise_value") =>
              /\ jobs' = jobs
              /\ nextJob' = nextJob
              /\ tasks' = tasks
              /\ task_status' = task_status
              /\ tab_tasks' = tab_tasks]_vars

\* A rejected schedule_task that came after an accepted one, whose job is
\* still registered.
C17_Witness ==
    /\ last.op = "schedule_task" /\ last.res = "raise_value"
    /\ Len(jobs) = 1
    /\ \E n \in DOMAIN tasks : tasks[n] = jobs[1].id /\ is_task_running(n)

\* C18 (cancel_task's answer): cancel_task(name) returns True exactly when a
\* job is registered under the name at the call, and after it none is: a
\* second cancel_task(name) with no schedule_task in between returns False.
\* When it returns False, for a cancelled or a never registered name, the
\* scheduler's state is what it was.
C18_CancelAnswer ==
    [][last'.op = "cancel_task" =>
           /\ last'.res \in {"true", "false"}
           /\ (last'.res = "true") <=>
                  (last'.name \in DOMAIN tasks /\ tasks[last'.name] \in JobIds(jobs))
           /\ last'.name \notin DOMAIN tasks'
           /\ (last'.res = "false") =>
                  /\ jobs' = jobs
                  /\ tasks' = tasks
                  /\ task_status' = task_status
                  /\ tab_tasks' = tab_tasks]_vars

\* The second cancel_task of a name (its status entry is left from the first)
\* has returned False, and the job of the other name is still registered.
C18_Witness ==
    /\ last.op = "cancel_task" /\ last.res = "false"
    /\ last.name \in DOMAIN task_status /\ task_status[last.name] = FALSE
    /\ \E n \in DOMAIN tasks : n # last.name /\ tasks[n] \in JobIds(jobs)

\* C19 (cancel_all_tasks): after cancel_all_tasks, called by the caller or by
\* Browser.close, nothing is registered: the job list, _tasks, _tab_tasks and
\* _task_status are empty, so is_task_running is false for every name; and as
\* long as the job list is empty and schedule_task has not been called again,
\* no step dispatches a callback.
C19_CancelAll ==
    [][/\ last'.op \in {"cancel_all_tasks", "close"} =>
              /\ jobs' = <<>>
              /\ tasks' = EmptyMap
              /\ tab_tasks' = EmptyMap
              /\ task_status' = EmptyMap
       /\ (jobs = <<>> /\ last'.op # "schedule_task") =>
              /\ jobs' = <<>>
              /\ last'.op # "dispatch"]_vars

\* A run window that came after cancel_all_tasks has ended without a single
\* callback invocation, although jobs had been registered before.
C19_Witness ==
    /\ last.op = "execute_tasks" /\ last.res = "return"
    /\ nextJob > 1
    /\ jobs = <<>> /\ tasks = EmptyMap /\ task_status = EmptyMap
    /\ \A n \in Names : ~is_task_running(n)
    /\ runCalls = 0
    /\ handles # {}

\* C20 (is_task_running): in every state, for every task name n,
\* is_task_running(n) is true exactly when n has an entry in the task table
\* and the job of that entry is in the library's job list; whether
\* execute_tasks is running and whether the job's tab is alive play no part.
C20_RunningIffRegistered ==
    \A n \in Names :
        is_task_running(n) <=> (n \in DOMAIN tasks /\ tasks[n] \in JobIds(jobs))

\* While execute_tasks is running, one name is registered on a tab that is no
\* longer alive and reports true, the other was cancelled and reports false.
C20_Witness ==
    /\ pc = "pending" /\ running
    /\ \E n \in Names, i \in 1..Len(jobs) :
           /\ is_task_running(n)
           /\ tasks[n] = jobs[i].id
           /\ jobs[i].tab \notin handles
    /\ \E m \in DOMAIN task_status : ~is_task_running(m) /\ m \notin DOMAIN tasks

\* ======================================================= run-loop claims
\* C11 (time budget), as claimed: whenever max_time is set (anything but
\* None, 0 included) no poll tick begins once the elapsed time has exceeded
\* max_time: the loop was left at the end of the tick before.
C11_TimeBudget ==
    (pc = "pending" /\ max_time # None) => tickAt - start_time <= max_time

\* C12 (running flag): _running is True once execute_tasks has started its
\* loop, and False whenever execute_tasks is not executing: after it
\* returned because the time limit was exceeded, because stop() was called
\* or because of a KeyboardInterrupt, after an error left the loop, and after
\* the ValueError for a sleep_time that is not positive.
C12_RunningFlag ==
    /\ pc = "idle" => ~running
    /\ (last.op = "execute_tasks" /\ last.res = "started") => running /\ pc = "top"
    /\ (last.op = "execute_tasks" /\ last.res \in {"return", "raise_value"}) =>
           ~running /\ pc = "idle"
    /\ last.op = "interrupt" => ~running /\ pc = "idle"

\* An exception that execute_tasks does not catch has left the loop after
\* callbacks had run, and the flag is False.
C12_Witness ==
    /\ last.op = "interrupt" /\ last.res = "raise"
    /\ runCalls >= 1
    /\ ~running /\ pc = "idle"

\* C13 (stop is cooperative): stop() writes the flag and nothing else, so a
\* dispatch in progress and the rest of the poll tick go on; a poll tick
\* begins only when the loop's test found the flag True; once the flag is
\* False, the sleep that follows the tick takes sleep_time and after it the
\* loop does nothing but leave, at that same moment.
C13_StopCooperative ==
    [][/\ last'.op = "stop" =>
              /\ ~running'
              /\ pc' = pc /\ pending' = pending /\ jobs' = jobs
              /\ tickLog' = tickLog /\ runCalls' = runCalls
              /\ cur' = cur /\ now' = now
       /\ last'.op = "run_pending" => running
       /\ (~running /\ pc = "pending" /\ pc' # "pending") =>
              /\ pc' \in {"top", "idle"}
              /\ now' - now <= sleep_time
       /\ (~running /\ pc = "top") =>
              /\ pc' \in {"top", "idle"}
              /\ now' = now]_vars

\* stop() came during a poll tick of a run without time limit: both due
\* callbacks were still run, and execute_tasks returned one sleep_time after
\* the end of that tick.
C13_Witness ==
    /\ last.op = "execute_tasks" /\ last.res = "return"
    /\ max_time = None
    /\ runCalls = 2
    /\ now = tickAt + 2 * SettleDelay + sleep_time

\* C21 (duplicate handle): a create for a handle the registry already holds
\* ends with a duplicate error and leaves the registry as it was.
C21_DuplicateRejected ==
    [][(last'.op = "create" /\ Listed(last'.tab, all_tabs)) =>
           /\ last'.res = "raise_duplicate"
           /\ all_tabs' = all_tabs]_vars

\* C22 (no new window): when window.open runs and the driver reports no new
\* handle, the request for a blank tab ends with SeleniumOpenTabException, no
\* tab is added to the registry, and the focus stays where it was when the
\* blank tab was requested: for get_blank_tab the current window of the call,
\* for Browser.open the window its switch_to_last_tab had focused.
C22_OpenFailure ==
    [][/\ (last'.op = "get_blank_tab" /\ cur # NoWindow /\ handles' = handles) =>
              /\ last'.res = "raise_open"
              /\ all_tabs' = all_tabs
              /\ cur' = cur
       /\ (/\ last'.op = "open"
           /\ switch_to_last_tab(all_tabs, handles, cur) # NoWindow
           /\ handles' = handles) =>
              /\ last'.res = "raise_open"
              /\ all_tabs' = all_tabs
              /\ cur' = switch_to_last_tab(all_tabs, handles, cur)]_vars

\* A blank tab was refused while two tabs were open and the first one focused.
C22_Witness ==
    /\ last.op = "get_blank_tab"
    /\ last.res = "raise_open"
    /\ Len(all_tabs) = 2
    /\ cur = all_tabs[1]

\* C23 (driver-backed operations): an operation of a Tab that goes through its
\* driver leaves that tab the current window when it is alive, and raises
\* SeleniumRequestException, the focus unchanged, when it is dead.
C23_DriverFocus ==
    [][last'.op = "driver_op" =>
           IF is_alive(last'.tab, handles)
           THEN last'.res = "ok" /\ cur' = last'.tab
           ELSE last'.res = "raise_dead" /\ cur' = cur]_vars

\* C24 (order inside close_tab), as claimed: a live window that was opened
\* through the registry has a registry entry at every moment, the moments
\* between two statements of close_tab included.
C24_CloseBeforeRemove ==
    \A h \in handles \cap (1..(nextHandle - 1)) : Listed(h, all_tabs)

\* C24, as the code has it: close_tab focuses the tab, then removes its entry
\* from the registry, then closes the focused window; a live window opened
\* through the registry is without an entry between that removal and that
\* close, and it is the tab being closed, and at no other moment.
C24_RemoveBeforeClose ==
    /\ [](\A h \in handles \cap (1..(nextHandle - 1)) :
              ~Listed(h, all_tabs) => pc = "removed" /\ closing = h /\ cur = h)
    /\ [][/\ (last'.op = "close_remove" /\ last'.res = "ok") =>
              /\ cur = closing
              /\ Listed(closing, all_tabs) /\ ~Listed(closing, all_tabs')
              /\ closing \in handles'
          /\ (last'.op = "close_window" /\ last'.res = "ok") =>
              /\ cur = closing
              /\ ~Listed(closing, all_tabs)
              /\ closing \in handles /\ closing \notin handles'
              /\ all_tabs' = all_tabs]_vars

\* The second of three tabs is off the registry and its window not yet closed.
C24_Witness ==
    /\ pc = "removed"
    /\ closing = 2
    /\ all_tabs = <<1, 3>>
    /\ handles = {0, 1, 2, 3}
    /\ cur = 2

\* C25 (mutual exclusion of dispatch), as claimed: at the moment a job's
\* callback is invoked its tab is alive and is the driver's current window.
C25_FocusedAtInvocation ==
    [][last'.op = "wrapper_call" =>
           is_alive(last'.tab, handles) /\ cur = last'.tab]_vars

\* C25, as the code has it: callbacks are invoked one at a time, each by the
\* wrapper of the job at the head of the tick's list; when the tab.switch() of
\* the wrapper returned, the tab was alive and the current window, and the
\* callback is invoked a settle delay later without another look, so that the
\* tab is then still the current window or has been closed from outside in
\* between, and no other window is ever the current one; a wrapper whose
\* tab.switch() raised invokes no callback.
C25_FocusedAtSwitch ==
    [][/\ (last'.op = "wrapper_switch" /\ last'.res # "raise") =>
              /\ is_alive(last'.tab, handles')
              /\ cur' = last'.tab
              /\ pc' = "settle"
       /\ (last'.op = "wrapper_switch" /\ last'.res = "raise") =>
              /\ ~is_alive(last'.tab, handles)
              /\ runCalls' = runCalls
              /\ pc' = "pending"
       /\ last'.op = "wrapper_call" =>
              /\ last'.job = Head(pending).id
              /\ \/ is_alive(last'.tab, handles) /\ cur = last'.tab
                 \/ ~is_alive(last'.tab, handles) /\ cur = NoWindow
       /\ (runCalls' # runCalls /\ last'.op # "execute_tasks") =>
              /\ last'.op = "wrapper_call"
              /\ runCalls' = runCalls + 1]_vars

\* A callback was invoked on a tab whose window was closed during the settle
\* delay.
C25_Witness ==
    /\ last.op = "wrapper_call"
    /\ ~is_alive(last.tab, handles)
    /\ cur = NoWindow

\* C27 (no dispatch twice within a period): when run_pending dispatches a
\* job that ran before, at least the job's period has passed since that run
\* ended; and every dispatch, whether the callback returned, raised, or the
\* tab.switch failed, leaves the job's last_run at the end of the dispatch and
\* its next run one period later.
C27_PeriodBetweenDispatches ==
    [][last'.op = "dispatch" =>
           LET j == Head(pending)
           IN  /\ last'.job = j.id
               /\ j.last_run # None => now - j.last_run >= j.period
               /\ \A i \in 1..Len(jobs') :
                      jobs'[i].id = j.id =>
                          /\ jobs'[i].last_run = now'
                          /\ jobs'[i].next_run = now' + j.period]_vars

\* The job whose callback raises was dispatched a second time, and its tab
\* was dead by then.
C27_Witness ==
    /\ last.op = "dispatch"
    /\ last.name = "failing_task"
    /\ last.res = "switch_failed"
    /\ tickLog # <<>>
    /\ tickLog[Len(tickLog)].job = last.job
    /\ tickLog[Len(tickLog)].prev # None

\* C28 (a job that never ran), as claimed: every poll tick lists every job
\* that has never run, the first tick after the registration included.
C28_DueAtFirstTick ==
    [][last'.op = "run_pending" =>
           \A i \in 1..Len(jobs) :
               jobs[i].last_run = None => jobs[i].id \in JobIds(pending')]_vars

\* C28, as the code has it: a job that has never run is listed by a poll tick
\* exactly when a full period has passed since its registration (at clock
\* value 0 here).
C28_DueAfterOnePeriod ==
    [][last'.op = "run_pending" =>
           \A i \in 1..Len(jobs) :
               jobs[i].last_run = None =>
                   (jobs[i].id \in JobIds(pending') <=> now >= jobs[i].period)]_vars

\* One second after the registration a poll tick lists the job of period one
\* second for its first run, and not the job of period two seconds.
C28_Witness ==
    /\ last.op = "run_pending"
    /\ now = 1 * Second
    /\ Len(jobs) = 2
    /\ \A i \in 1..2 : jobs[i].last_run = None
    /\ Len(pending) = 1
    /\ pending[1].period = 1 * Second

\* C29 (order within a tick), as claimed: the dispatches of one poll tick
\* follow the order of registration (job identities are given in that order).
C29_RegistrationOrder ==
    \A i, k \in 1..Len(tickLog) : i < k => tickLog[i].job < tickLog[k].job

\* C29, as the code has it: a poll tick dispatches its due jobs in the order
\* of the times at which they became due, and jobs that became due at the
\* same time in the order of registration.
C29_DueTimeOrder ==
    [][/\ last'.op = "run_pending" =>
              \A i, k \in 1..Len(pending') :
                  i < k => \/ pending'[i].next_run < pending'[k].next_run
                           \/ /\ pending'[i].next_run = pending'[k].next_run
                              /\ pending'[i].id < pending'[k].id
       /\ last'.op = "dispatch" =>
              /\ last'.job = Head(pending).id
              /\ pending' = Tail(pending)]_vars

\* The job registered second became due first and was dispatched first.
C29_Witness ==
    /\ last.op = "dispatch"
    /\ Len(tickLog) = 2
    /\ tickLog[1].job = 2
    /\ tickLog[2].job = 1

\* C30 (cancellation during a tick), as claimed: no callback is invoked for
\* a job that has been cancelled.
C30_CancelledNotInvoked ==
    [][(last'.op = "dispatch" /\ Invoked(last'.res)) =>
           last'.job \in JobIds(jobs)]_vars

\* C30, as the code has it: a cancel_task made by a callback takes the job
\* off the job list and out of the task table at once and leaves the list of
\* due jobs of the running tick as it is; the tick goes on dispatching that
\* list to its end, a job cancelled meanwhile included, and every later tick
\* lists jobs of the job list only.
C30_CancelAfterTick ==
    [][/\ (last'.op = "callback_cancel" /\ last'.res = "true") =>
              /\ pending' = pending
              /\ last'.job \in JobIds(jobs) /\ last'.job \notin JobIds(jobs')
              /\ last'.name \notin DOMAIN tasks'
       /\ last'.op = "run_pending" => JobIds(pending') \subseteq JobIds(jobs)
       /\ last'.op = "dispatch" => last'.job = Head(pending).id
       /\ (pc = "pending" /\ pc' # "pending") => pending = <<>>]_vars

\* The callback of check_time cancelled failing_task, which was due in the
\* same tick, and the callback of failing_task was invoked all the same.
C30_Witness ==
    /\ last.op = "dispatch"
    /\ last.name = "failing_task"
    /\ Invoked(last.res)
    /\ last.job \notin JobIds(jobs)
    /\ Len(tickLog) = 2
    /\ tickLog[1].name = "check_time"

\* C26 (the only path of focus), as claimed: the current window changes only
\* in operations that call Tab.switch or close the current window.
SwitchingOps ==
    {"switch", "open", "get_blank_tab", "close_tab", "dispatch",
     "external_close", "close"}

C26_OnlySwitch ==
    [][cur' # cur => last'.op \in SwitchingOps]_vars

\* C26, as the code has it: besides the operations that call Tab.switch or
\* close the current window, every driver-backed operation of a live tab that
\* is not the current window makes it the current window, through
\* Session.switch_to_window_handle and not through Tab.switch; every other
\* operation leaves the current window as it is.
C26_SwitchOrDriver ==
    [][/\ cur' # cur => last'.op \in SwitchingOps \cup {"driver_op"}
       /\ last'.op = "driver_op" =>
              IF is_alive(last'.tab, handles)
              THEN cur' = last'.tab
              ELSE cur' = cur
       /\ (last'.op = "get_blank_tab" /\ cur' # cur) =>
              /\ cur' = nextHandle
              /\ last'.res = "ok"]_vars

\* A driver-backed operation moved the focus from the second tab to the first.
C26_Witness ==
    /\ last.op = "driver_op"
    /\ last.res = "ok"
    /\ last.tab = 1
    /\ cur = 1
    /\ all_tabs = <<1, 2>>
    /\ handles = {0, 1, 2}

\* C31 (registry liveness): between the caller's operations every handle of
\* the tab list is the handle of an open window.
C31_RegistryLive ==
    pc = "idle" => \A i \in 1..Len(all_tabs) : is_alive(all_tabs[i], handles)

\* C32 (closed is terminal): a tab whose window is closed stays so: in every
\* later state its window is not open and it is not the current window, also
\* when the driver has no current window at all; and a switch, a close_tab or
\* a driver-backed operation on it ends with an exception and changes neither
\* the windows, nor the current window, nor the tab list.
C32_ClosedIsTerminal ==
    /\ [](\A t \in 0..(nextHandle - 1) : t \notin handles => ~is_active(t, cur))
    /\ [][/\ \A t \in 0..(nextHandle - 1) : t \notin handles => t \notin handles'
          /\ (/\ last'.op \in {"switch", "close_tab", "driver_op"}
              /\ last'.tab \notin handles) =>
                 /\ last'.res \in {"raise", "raise_dead", "raise_not_exist",
                                   "raise_recursion"}
                 /\ handles' = handles
                 /\ cur' = cur
                 /\ all_tabs' = all_tabs]_vars

\* The focused tab was closed from outside, and a switch to it raised while
\* the driver had no current window.
C32_Witness ==
    /\ last.op = "switch"
    /\ last.res = "raise"
    /\ last.tab \notin handles
    /\ cur = NoWindow
    /\ Listed(last.tab, all_tabs)

\* C33 (switch_to_last_tab, switch_to_first_tab): with an empty registry or a
\* target whose window is closed they return False and leave the current
\* window and the tab list as they are; otherwise they return True, the
\* target (the last, the first tab of the list) is the current window
\* afterwards, and the tab list is as it was.
C33_SwitchToEnds ==
    [][/\ last'.op = "switch_to_last_tab" =>
              IF all_tabs = <<>> \/ all_tabs[Len(all_tabs)] \notin handles
              THEN last'.res = "false" /\ cur' = cur /\ all_tabs' = all_tabs
              ELSE /\ last'.res = "true"
                   /\ cur' = all_tabs[Len(all_tabs)]
                   /\ all_tabs' = all_tabs
       /\ last'.op = "switch_to_first_tab" =>
              IF all_tabs = <<>> \/ all_tabs[1] \notin handles
              THEN last'.res = "false" /\ cur' = cur /\ all_tabs' = all_tabs
              ELSE /\ last'.res = "true"
                   /\ cur' = all_tabs[1]
                   /\ all_tabs' = all_tabs]_vars

\* switch_to_first_tab answered False for a first tab whose window was closed
\* from outside, while the last tab stayed the current window.
C33_Witness ==
    /\ last.op = "switch_to_first_tab"
    /\ last.res = "false"
    /\ Len(all_tabs) = 2
    /\ all_tabs[1] \notin handles
    /\ cur = all_tabs[2]

\* The tab a job of the library's job list is bound to (None when the list
\* has no such job).
JobTab(js, id) ==
    IF \E i \in 1..Len(js) : js[i].id = id
    THEN (CHOOSE j \in {js[i] : i \in 1..Len(js)} : j.id = id).tab
    ELSE None

\* C34 (cancel_tab_tasks cancels all): after cancel_tab_tasks(T) no task
\* that was listed for T is registered or marked as running, and T has no
\* entry in the per-tab index.
C34_CancelsAllOfTab ==
    [][last'.op = "cancel_tab_tasks" =>
           /\ \A n \in ListedNames(last'.tab) :
                  /\ n \notin DOMAIN tasks'
                  /\ n \in DOMAIN task_status' => ~task_status'[n]
           /\ last'.tab \notin DOMAIN tab_tasks']_vars

\* C35 (cancel_tab_tasks cancels only the tab's jobs): a task whose
\* registered job is bound to another tab than T is still registered, with
\* the same job, which is still in the job list, after cancel_tab_tasks(T).
C35_OtherTabsKept ==
    [][last'.op = "cancel_tab_tasks" =>
           \A n \in DOMAIN tasks :
               (/\ JobTab(jobs, tasks[n]) # None
                /\ JobTab(jobs, tasks[n]) # last'.tab) =>
                   /\ n \in DOMAIN tasks'
                   /\ tasks'[n] = tasks[n]
                   /\ tasks[n] \in JobIds(jobs')]_vars

\* C36 (a focus target after close_tab): when close_tab has returned True and
\* some window is still open, the driver's current window is an open window.
C36_FocusAfterClose ==
    [][(last'.op = "close_tab" /\ last'.res = "true" /\ handles' # {}) =>
           cur' \in handles']_vars

\* C37 (close_tab is all-or-nothing): a close_tab that raises has closed no
\* window and removed no entry of the tab list.
C37_AllOrNothing ==
    [][(last'.op = "close_tab" /\ last'.res # "true") =>
           /\ handles' = handles
           /\ all_tabs' = all_tabs]_vars

\* C38 (two Browsers): closing another Browser of the process leaves this
\* Browser's jobs in the job list and its tasks registered and marked as
\* running.
C38_OtherBrowserKept ==
    [][last'.op = "close_other" =>
           /\ jobs' = jobs
           /\ tasks' = tasks
           /\ task_status' = task_status]_vars
====
